---- MODULE Spec2Model ----
(***************************************************************************)
(* Google Maps Coordinates Extractor (src/src/App.tsx).                    *)
(*                                                                         *)
(* The App component as a state machine: its useState fields, the          *)
(* localStorage entry "coordinatesHistory", the wall clock read by         *)
(* Date.now()/new Date(), and the position of an in-flight handleSubmit.   *)
(* Strings are TLA+ strings; a character is a string of length one.        *)
(* Numbers produced by parseFloat are exact decimals [m, e] = m / 10^e.    *)
(***************************************************************************)
EXTENDS Integers, Sequences, FiniteSets, TLC

VARIABLES input, loading, error, result, history, preferViewport,
          showClearModal, storage, now, pc, closure, log, fromEmpty

vars == <<input, loading, error, result, history, preferViewport,
          showClearModal, storage, now, pc, closure, log, fromEmpty>>

(***************************************************************************)
(* Bounds of the model.                                                    *)
(***************************************************************************)
\* records allowed between two clears (one more than the history cap + 1)
MaxRecords == 11
\* last value of the wall clock, in milliseconds since the epoch
MaxClock == 2
\* number of URL fragments appended to the base URL of a drawn input
MaxParts == 2

(***************************************************************************)
(* Option values: null / undefined is <<>>, a present value v is <<v>>.    *)
(***************************************************************************)
Null == <<>>
Some(v) == <<v>>
IsNull(o) == o = <<>>
Val(o) == o[1]

\* Op applied to the value of v, which is computed once: a const binding
Bind(v, Op(_)) == CHOOSE r \in {Op(x) : x \in {v}} : TRUE

Min(a, b) == IF a <= b THEN a ELSE b

(***************************************************************************)
(* String primitives of String.prototype                                   *)
(***************************************************************************)
CharAt(s, i) == IF 1 <= i /\ i <= Len(s) THEN SubSeq(s, i, i) ELSE ""

StartsWithAt(s, i, p) ==
    /\ i >= 1
    /\ i + Len(p) - 1 <= Len(s)
    /\ SubSeq(s, i, i + Len(p) - 1) = p

startsWith(s, p) == StartsWithAt(s, 1, p)

includes(s, p) == \E i \in 1..(Len(s) + 1) : StartsWithAt(s, i, p)

IsSpace(c) == c \in {" ", "\t", "\n", "\r"}

RECURSIVE trimStart(_)
trimStart(s) ==
    IF Len(s) > 0 /\ IsSpace(CharAt(s, 1))
    THEN Bind(SubSeq(s, 2, Len(s)), trimStart)
    ELSE s

RECURSIVE trimEnd(_)
trimEnd(s) ==
    IF Len(s) > 0 /\ IsSpace(CharAt(s, Len(s)))
    THEN Bind(SubSeq(s, 1, Len(s) - 1), trimEnd)
    ELSE s

trim(s) == trimEnd(trimStart(s))

\* input.replace("place_id:", ""): the first occurrence only
replaceFirst(s, p, r) ==
    IF ~includes(s, p) THEN s
    ELSE LET i == CHOOSE k \in 1..Len(s) :
                     /\ StartsWithAt(s, k, p)
                     /\ \A j \in 1..(k - 1) : ~StartsWithAt(s, j, p)
         IN  SubSeq(s, 1, i - 1) \o r \o SubSeq(s, i + Len(p), Len(s))

\* s.replace(/\+/g, " ")
RECURSIVE replacePlus(_)
replacePlus(s) ==
    IF Len(s) = 0 THEN ""
    ELSE (IF CharAt(s, 1) = "+" THEN " " ELSE CharAt(s, 1))
         \o Bind(SubSeq(s, 2, Len(s)), replacePlus)

Digits == "0123456789"
IsDigit(c) == Len(c) = 1 /\ includes(Digits, c)
DigitVal(c) == (CHOOSE i \in 1..10 : SubSeq(Digits, i, i) = c) - 1

\* Number.prototype.toString / String(n) of a non-negative integer
RECURSIVE IntToString(_)
IntToString(n) ==
    IF n < 10 THEN SubSeq(Digits, n + 1, n + 1)
    ELSE IntToString(n \div 10) \o SubSeq(Digits, (n % 10) + 1, (n % 10) + 1)

(***************************************************************************)
(* The number sub-pattern  -?\d+\.?\d*  (NUM below) and parseFloat         *)
(***************************************************************************)
\* first position >= i of s that holds no digit
DigitsEnd(s, i) ==
    IF i > Len(s) THEN i
    ELSE CHOOSE k \in i..(Len(s) + 1) :
             /\ ~IsDigit(CharAt(s, k))
             /\ \A j \in i..(k - 1) : IsDigit(CharAt(s, j))

\* The position after the greedy match of -?\d+\.?\d* starting at i, 0 when
\* the sub-pattern does not match at i.
NumEnd(s, i) ==
    Bind(IF CharAt(s, i) = "-" THEN i + 1 ELSE i, LAMBDA j :
    Bind(DigitsEnd(s, j), LAMBDA k :
        IF k = j THEN 0
        ELSE DigitsEnd(s, IF CharAt(s, k) = "." THEN k + 1 ELSE k)))

RECURSIVE DigitsValue(_)
DigitsValue(t) ==
    IF Len(t) = 0 THEN 0
    ELSE 10 * Bind(SubSeq(t, 1, Len(t) - 1), DigitsValue)
         + DigitVal(CharAt(t, Len(t)))

RECURSIVE Pow10(_)
Pow10(n) == IF n = 0 THEN 1 ELSE 10 * Pow10(n - 1)

\* m / 10^e with trailing zeros of the fraction removed (1.50 = 1.5 = 15/10)
RECURSIVE Normalize(_, _)
Normalize(m, e) ==
    IF e > 0 /\ m % 10 = 0 THEN Normalize(m \div 10, e - 1) ELSE [m |-> m, e |-> e]

\* Number.MAX_VALUE, about 1.797e308, has 309 digits before the point: a
\* decimal text with 310 or more significant digits before the point is
\* parsed as Infinity
MaxValueDigits == 309

PositiveInfinity == [inf |-> 1]
NegativeInfinity == [inf |-> -1]

\* number of digits of the digit string ip after its leading zeros
RECURSIVE SignificantLen(_)
SignificantLen(ip) ==
    IF Len(ip) > 0 /\ CharAt(ip, 1) = "0"
    THEN Bind(SubSeq(ip, 2, Len(ip)), SignificantLen)
    ELSE Len(ip)

\* parseFloat that loses the sign
parseFloatUnsigned(t) ==
    LET a == IF CharAt(t, 1) = "-" THEN 2 ELSE 1
    IN  Bind(DigitsEnd(t, a), LAMBDA k :
        Bind(SubSeq(t, a, k - 1), LAMBDA ip :
        Bind(IF CharAt(t, k) = "." THEN SubSeq(t, k + 1, Len(t)) ELSE "", LAMBDA fp :
        Bind(DigitsValue(ip) * Pow10(Len(fp)) + DigitsValue(fp), LAMBDA mag :
            Normalize(mag, Len(fp))))))

\* parseFloat of a text matched by the number sub-pattern.  A text of a few
\* digits denotes its decimal value exactly; a text that overflows the
\* double range denotes an infinity.  (Texts between the two, which are
\* rounded to a finite double, are not among the inputs drawn.)
parseFloat(t) ==
    LET neg == CharAt(t, 1) = "-"
        a   == IF neg THEN 2 ELSE 1
    IN  Bind(DigitsEnd(t, a), LAMBDA k :
        Bind(SubSeq(t, a, k - 1), LAMBDA ip :
            IF SignificantLen(ip) > MaxValueDigits
            THEN (IF neg THEN NegativeInfinity ELSE PositiveInfinity)
            ELSE
        Bind(IF CharAt(t, k) = "." THEN SubSeq(t, k + 1, Len(t)) ELSE "", LAMBDA fp :
        Bind(DigitsValue(ip) * Pow10(Len(fp)) + DigitsValue(fp), LAMBDA mag :
            Normalize(IF neg THEN 0 - mag ELSE mag, Len(fp))))))

(***************************************************************************)
(* url.match of a coordinate pattern  <prefix> NUM <sep> NUM , where NUM   *)
(* is the number sub-pattern above.  A pattern is the set of literal       *)
(* prefixes its head can take ({"?ll=", "&ll="} for [?&]ll=) and the       *)
(* separator between its two groups.  The first group is followed by the   *)
(* separator, which starts with ',' or '!', and every character the greedy *)
(* match consumed is a digit, '-' or '.', so backtracking cannot find a    *)
(* match the greedy one misses.                                            *)
(***************************************************************************)
PairAt(s, i, p, sep) ==
    IF ~StartsWithAt(s, i, p) THEN Null
    ELSE Bind(NumEnd(s, i + Len(p)), LAMBDA e1 :
         IF e1 = 0 \/ ~StartsWithAt(s, e1, sep) THEN Null
         ELSE Bind(NumEnd(s, e1 + Len(sep)), LAMBDA e2 :
              IF e2 = 0 THEN Null
              ELSE Some(<<SubSeq(s, i + Len(p), e1 - 1),
                          SubSeq(s, e1 + Len(sep), e2 - 1)>>)))

\* String.prototype.match without the g flag: the groups of the leftmost
\* match, or Null
match(s, pattern) ==
    Bind({i \in 1..Len(s) :
             \E p \in pattern.head : ~IsNull(PairAt(s, i, p, pattern.sep))},
         LAMBDA hits :
             IF hits = {} THEN Null
             ELSE CHOOSE g \in {PairAt(s, i, p, pattern.sep) :
                                   i \in {k \in hits : \A j \in hits : k <= j},
                                   p \in pattern.head} : ~IsNull(g))

atPattern     == [head |-> {"@"}, sep |-> ","]
llPattern     == [head |-> {"?ll=", "&ll="}, sep |-> ","]
qPattern      == [head |-> {"?q=", "&q="}, sep |-> ","]
centerPattern == [head |-> {"?center=", "&center="}, sep |-> ","]
directPattern == [head |-> {"/"}, sep |-> ","]
exactPattern  == [head |-> {"!3d"}, sep |-> "!4d"]

(***************************************************************************)
(* decodeURIComponent (ECMAScript Decode with an empty reserved set).      *)
(* A JavaScript string is a sequence of UTF-16 code units; the decoded     *)
(* place name is kept as that sequence.  The result is Null when the       *)
(* built-in throws URIError.                                               *)
(***************************************************************************)
\* the printable ASCII characters 32..95 and 97..126, in code order
AsciiLow == " !\"#$%&'()*+,-./0123456789:;<=>?@ABCDEFGHIJKLMNOPQRSTUVWXYZ[\\]^_"
AsciiHigh == "abcdefghijklmnopqrstuvwxyz{|}~"

\* String.prototype.charCodeAt of a one-character string
charCode(c) ==
    IF includes(AsciiLow, c)
    THEN 31 + (CHOOSE i \in 1..Len(AsciiLow) : SubSeq(AsciiLow, i, i) = c)
    ELSE 96 + (CHOOSE i \in 1..Len(AsciiHigh) : SubSeq(AsciiHigh, i, i) = c)

HexUpper == "0123456789ABCDEF"
HexLower == "0123456789abcdef"
IsHex(c) == Len(c) = 1 /\ (includes(HexUpper, c) \/ includes(HexLower, c))
HexVal(c) ==
    IF includes(HexUpper, c)
    THEN (CHOOSE i \in 1..16 : SubSeq(HexUpper, i, i) = c) - 1
    ELSE (CHOOSE i \in 1..16 : SubSeq(HexLower, i, i) = c) - 1

\* s holds an escape %XX at position k
IsEscapeAt(s, k) ==
    CharAt(s, k) = "%" /\ IsHex(CharAt(s, k + 1)) /\ IsHex(CharAt(s, k + 2))
ByteAt(s, k) == 16 * HexVal(CharAt(s, k + 1)) + HexVal(CharAt(s, k + 2))

\* number of leading 1 bits of a byte
LeadingOnes(b) ==
    IF b < 128 THEN 0 ELSE IF b < 192 THEN 1 ELSE IF b < 224 THEN 2
    ELSE IF b < 240 THEN 3 ELSE IF b < 248 THEN 4 ELSE 5

\* the n - 1 escapes after the lead byte at k are continuation bytes 10xxxxxx
ContinuationsOk(s, k, n) ==
    \A j \in 1..(n - 1) :
        /\ IsEscapeAt(s, k + 3 * j)
        /\ LeadingOnes(ByteAt(s, k + 3 * j)) = 1

RECURSIVE ContinuationBits(_, _, _)
ContinuationBits(s, k, n) ==
    IF n = 1 THEN 0
    ELSE 64 * ContinuationBits(s, k, n - 1) + (ByteAt(s, k + 3 * (n - 1)) % 64)

\* the code point of the n-byte UTF-8 sequence whose lead byte is at k
CodePoint(s, k, n) ==
    LET lead == ByteAt(s, k)
        top  == IF n = 2 THEN lead % 32 ELSE IF n = 3 THEN lead % 16 ELSE lead % 8
        shift == IF n = 2 THEN 64 ELSE IF n = 3 THEN 4096 ELSE 262144
    IN  top * shift + ContinuationBits(s, k, n)

\* no overlong form, no surrogate, nothing above U+10FFFF
ValidCodePoint(v, n) ==
    \/ n = 2 /\ v >= 128
    \/ n = 3 /\ v >= 2048 /\ ~(55296 <= v /\ v <= 57343)
    \/ n = 4 /\ v >= 65536 /\ v <= 1114111

Utf16(v) ==
    IF v < 65536 THEN <<v>>
    ELSE <<55296 + ((v - 65536) \div 1024), 56320 + ((v - 65536) % 1024)>>

RECURSIVE Decode(_, _)
Decode(s, k) ==
    IF k > Len(s) THEN Some(<<>>)
    ELSE LET c == CharAt(s, k)
             n == LeadingOnes(ByteAt(s, k))
             units == IF c # "%" THEN <<charCode(c)>>
                      ELSE IF n = 0 THEN <<ByteAt(s, k)>>
                      ELSE Utf16(CodePoint(s, k, n))
             next == IF c # "%" THEN k + 1 ELSE IF n = 0 THEN k + 3 ELSE k + 3 * n
             thrown ==
                 /\ c = "%"
                 /\ \/ ~IsEscapeAt(s, k)
                    \/ n = 1
                    \/ n > 4
                    \/ n >= 2 /\ ~ContinuationsOk(s, k, n)
                    \/ n >= 2 /\ ~ValidCodePoint(CodePoint(s, k, n), n)
         IN  IF thrown THEN Null
             ELSE Bind(next, LAMBDA after :
                  Bind(Decode(s, after), LAMBDA rest :
                      IF IsNull(rest) THEN Null ELSE Some(units \o Val(rest))))

decodeURIComponent(s) == Decode(s, 1)

(***************************************************************************)
(* extractCoordinatesFromUrl                                               *)
(***************************************************************************)
PlacePrefix == "maps/place/"

\* first position >= i of s that holds '/' or lies past the end
RECURSIVE SegmentEnd(_, _)
SegmentEnd(s, i) ==
    IF i > Len(s) \/ CharAt(s, i) = "/" THEN i ELSE SegmentEnd(s, i + 1)

\* url.match(/maps\/place\/([^/]+)/): group 1 of the leftmost match, or Null
placeNameMatch(url) ==
    Bind({i \in 1..Len(url) :
             /\ StartsWithAt(url, i, PlacePrefix)
             /\ SegmentEnd(url, i + Len(PlacePrefix)) > i + Len(PlacePrefix)},
         LAMBDA hits :
             IF hits = {} THEN Null
             ELSE Bind(Len(PlacePrefix) + CHOOSE k \in hits : \A j \in hits : k <= j,
                       LAMBDA a : Some(SubSeq(url, a, SegmentEnd(url, a) - 1))))

\* the exact marker tried second instead of last
PatternOrderExactSecond ==
    <<atPattern, exactPattern, llPattern, qPattern, centerPattern, directPattern>>

\* the patterns in the order the function tries them (Pattern 1 .. Pattern 6)
PatternOrder ==
    <<atPattern, llPattern, qPattern, centerPattern, directPattern, exactPattern>>

RECURSIVE firstMatch(_, _)
firstMatch(url, patterns) ==
    IF patterns = <<>> THEN Null
    ELSE Bind(match(url, Head(patterns)), LAMBDA m :
             IF IsNull(m) THEN firstMatch(url, Tail(patterns)) ELSE m)

Coordinates(groups) == [lat |-> parseFloat(groups[1]), lng |-> parseFloat(groups[2])]

\* Some([coordinates, placeName]) or Null; Null also when decodeURIComponent
\* throws, which the function's catch turns into "return null"
extractCoordinatesFromUrl(rawUrl) ==
    Bind(trim(rawUrl), LAMBDA url :
    Bind(placeNameMatch(url), LAMBDA pm :
    Bind(IF IsNull(pm) THEN Some(Null)
         ELSE Bind(Bind(Bind(Val(pm), replacePlus), decodeURIComponent),
                   LAMBDA d : IF IsNull(d) THEN Null ELSE Some(d)),
         LAMBDA name :
             IF IsNull(name) THEN Null
             ELSE Bind(firstMatch(url, PatternOrder), LAMBDA m :
                  IF IsNull(m) THEN Null
                  ELSE Bind(Val(m), LAMBDA groups :
                       Some([coordinates |-> Coordinates(groups),
                             placeName |-> Val(name)]))))))

\* the stubs: async functions that resolve to null
geocodePlace(place) == Null

\* a geocodePlaceId that finds the place
geocodePlaceIdFound(placeId) ==
    Some([coordinates |-> [lat |-> [m |-> 1, e |-> 0], lng |-> [m |-> 2, e |-> 0]],
          placeName |-> Null])

geocodePlaceId(placeId) == Null

(***************************************************************************)
(* Input classification                                                    *)
(***************************************************************************)
\* isGoogleMapsUrl that knows the long host only
isGoogleMapsUrlLongHostOnly(s) == includes(s, "google.com/maps")

isGoogleMapsUrl(s) ==
    \/ includes(s, "google.com/maps")
    \/ includes(s, "goo.gl/maps")
    \/ includes(s, "maps.app.goo.gl")

isPlaceId(s) == startsWith(s, "ChIJ") \/ startsWith(s, "place_id:")

getInputType(s) ==
    IF isGoogleMapsUrl(s) THEN "Google Maps URL"
    ELSE IF isPlaceId(s) THEN "Place ID"
    ELSE "Place Name"

(***************************************************************************)
(* Dates and the persisted JSON text                                       *)
(* A Date is <<ms>> (milliseconds since the epoch) or <<>> (Invalid Date). *)
(* The text under the key "coordinatesHistory" is modelled by the value it *)
(* denotes: [t |-> "arr", v |-> items] for a JSON array, [t |-> "text"]    *)
(* for a text JSON.parse rejects.  A JSON timestamp is <<iso string>> or   *)
(* <<>> (null).                                                            *)
(***************************************************************************)
DateOf(ms) == <<ms>>
InvalidDate == <<>>

RECURSIVE Pad(_, _)
Pad(s, w) == IF Len(s) >= w THEN s ELSE Pad("0" \o s, w)

\* Date.prototype.toISOString for an instant of 1 January 1970, the day on
\* which the model's clock runs
toISOString(ms) ==
    "1970-01-01T" \o Pad(IntToString(ms \div 3600000), 2)
        \o ":" \o Pad(IntToString((ms \div 60000) % 60), 2)
        \o ":" \o Pad(IntToString((ms \div 1000) % 60), 2)
        \o "." \o Pad(IntToString(ms % 1000), 3) \o "Z"

AllDigits(s) == \A i \in 1..Len(s) : IsDigit(CharAt(s, i))

\* new Date(v) for a JSON timestamp: null gives the epoch, a string that is
\* not a date-time gives Invalid Date
parseDate(v) ==
    IF IsNull(v) THEN DateOf(0)
    ELSE LET s  == Val(v)
             hh == SubSeq(s, 12, 13)
             mm == SubSeq(s, 15, 16)
             ss == SubSeq(s, 18, 19)
             ms == SubSeq(s, 21, 23)
         IN  IF /\ Len(s) = 24
                /\ SubSeq(s, 1, 11) = "1970-01-01T"
                /\ CharAt(s, 14) = ":" /\ CharAt(s, 17) = ":"
                /\ CharAt(s, 20) = "." /\ CharAt(s, 24) = "Z"
                /\ AllDigits(hh) /\ AllDigits(mm) /\ AllDigits(ss) /\ AllDigits(ms)
                /\ DigitsValue(hh) < 24 /\ DigitsValue(mm) < 60 /\ DigitsValue(ss) < 60
             THEN DateOf(((DigitsValue(hh) * 60 + DigitsValue(mm)) * 60
                          + DigitsValue(ss)) * 1000 + DigitsValue(ms))
             ELSE InvalidDate

\* toISOString(ms), read from a table computed once for the instants the
\* model's clock takes
IsoTable == [ms \in 0..MaxClock |-> toISOString(ms)]
Iso(ms) == IF ms \in DOMAIN IsoTable THEN IsoTable[ms] ELSE toISOString(ms)

\* new Date(v), read from a table computed once for the texts of IsoTable
ParsedTable == [ms \in DOMAIN IsoTable |-> parseDate(Some(IsoTable[ms]))]
newDate(v) ==
    IF ~IsNull(v) /\ \E ms \in DOMAIN IsoTable : IsoTable[ms] = Val(v)
    THEN ParsedTable[CHOOSE ms \in DOMAIN IsoTable : IsoTable[ms] = Val(v)]
    ELSE parseDate(v)

\* Date.prototype.toJSON: null for an Invalid Date
dateToJSON(d) == IF d = InvalidDate THEN Null ELSE Some(Iso(Val(d)))

\* JSON.stringify of a number or of null: an infinity is written as null
JsonNull == [null |-> TRUE]
numberToJSON(x) == IF x \in {PositiveInfinity, NegativeInfinity} THEN JsonNull ELSE x

\* JSON.stringify of one history item: every key the object has, a Date as
\* its toJSON, no key for an undefined placeName.  An item in memory always
\* has the keys timestamp and placeName (Null for undefined).
entryToJSON(e) ==
    [k \in {f \in DOMAIN e : f = "placeName" => ~IsNull(e.placeName)} |->
        IF k = "timestamp" THEN dateToJSON(e.timestamp)
        ELSE IF k = "placeName" THEN Val(e.placeName)
        ELSE IF k = "coordinates"
        THEN [lat |-> numberToJSON(e.coordinates.lat),
              lng |-> numberToJSON(e.coordinates.lng)]
        ELSE e[k]]

\* JSON.stringify(updatedHistory)
JSONstringify(h) == [t |-> "arr", v |-> [i \in 1..Len(h) |-> entryToJSON(h[i])]]

\* ({...item, timestamp: new Date(item.timestamp)}) of a parsed item: the
\* keys the item has, and a timestamp, which is Invalid Date when the item
\* has none (new Date(undefined))
revive(item) ==
    [k \in DOMAIN item \cup {"timestamp", "placeName"} |->
        IF k = "timestamp"
        THEN (IF "timestamp" \in DOMAIN item THEN newDate(item.timestamp)
              ELSE InvalidDate)
        ELSE IF k = "placeName"
        THEN (IF "placeName" \in DOMAIN item THEN Some(item.placeName) ELSE Null)
        ELSE item[k]]

\* JSON.parse(savedHistory).map(revive): Null when it throws
parseHistory(text) ==
    IF text.t = "arr" THEN Some([i \in 1..Len(text.v) |-> revive(text.v[i])])
    ELSE Null

(***************************************************************************)
(* The messages of handleSubmit                                            *)
(***************************************************************************)
ErrUrl == "Could not extract coordinates from this Google Maps URL. Please try a different URL format."
ErrPlaceId == "Could not find coordinates for this Place ID. Please check the ID and try again."
ErrPlaceName == "Place name geocoding requires a Google Maps API key. Please use a Google Maps URL instead, or configure the API key."

(***************************************************************************)
(* The inputs of the user                                                  *)
(***************************************************************************)
\* the first "Try These Examples" button
ExampleUrl == "https://www.google.com/maps/@40.7589,-73.9851,15z"

\* what the user types into the field
TypedInputs ==
    {"  ", "https://goo.gl/maps/abc", "ChIJabc123", "place_id:ChIJabc123",
     "Eiffel Tower"}

\* Inputs drawn for the extractor: a base URL followed by up to MaxParts of
\* these fragments, so that markers meet, repeat and run into each other
UrlBase == "https://www.google.com/maps"
UrlParts ==
    {"/@12.34,-56.78", "/@1,2", "9", "/place/Caf%C3%A9+X", "/place/%",
     "/data=!3d1.1!4d2.2", "?q=7,-8", "&ll=5,6.", "&center=-0,1", "/3,4"}

\* Inputs drawn for the classifier: up to MaxParts of these fragments
ClassParts ==
    {"https://maps.google.com/", "maps", "ChIJ", "place_id:", "goo.gl/maps",
     "maps.app.goo.gl", "abc123", " "}

RECURSIVE Concats(_, _)
Concats(parts, n) ==
    IF n = 0 THEN {""}
    ELSE LET shorter == Concats(parts, n - 1)
         IN  shorter \cup {s \o f : s \in shorter, f \in parts}

DrawnUrls == {UrlBase \o s : s \in Concats(UrlParts, MaxParts)}
DrawnInputs == DrawnUrls \cup Concats(ClassParts, MaxParts)

\* a URL with a place segment
NamedUrl == "https://www.google.com/maps/place/Caf%C3%A9+X/@12.34,-56.78"

\* a URL whose latitude has more digits than a double can hold
RECURSIVE Repeat(_, _)
Repeat(s, n) ==
    IF n = 0 THEN ""
    ELSE Bind(Repeat(s, n \div 2),
              LAMBDA h : IF n % 2 = 0 THEN h \o h ELSE h \o h \o s)
OverflowUrl ==
    "https://www.google.com/maps/@" \o Repeat("9", MaxValueDigits + 1) \o ",2"

\* what the user types in the runs that reload the page
LoadInputs == {ExampleUrl, NamedUrl, OverflowUrl, "ChIJabc123"}

\* the values the field takes in the application runs
AppInputs == TypedInputs \cup {"", ExampleUrl} \cup LoadInputs

\* extractCoordinatesFromUrl(u) and getInputType(u), read from a table
\* computed once for the inputs of the application runs
ExtractedTable == [u \in AppInputs |-> extractCoordinatesFromUrl(u)]
InputTypeTable == [u \in AppInputs |-> getInputType(u)]
Extracted(u) ==
    IF u \in AppInputs THEN ExtractedTable[u] ELSE extractCoordinatesFromUrl(u)
InputType(u) ==
    IF u \in AppInputs THEN InputTypeTable[u] ELSE getInputType(u)

\* an entry written by an earlier session
EarlierEntry ==
    [id |-> "0", input |-> ExampleUrl,
     coordinates |-> [lat |-> parseFloat("40.7589"), lng |-> parseFloat("-73.9851")],
     timestamp |-> DateOf(0), type |-> "url", placeName |-> Null]

\* what localStorage holds under the key when the component mounts
InitialStores ==
    {Null, Some([t |-> "text"]), Some(JSONstringify(<<EarlierEntry>>))}

\* an entry with a place name written by an earlier session
EarlierNamedEntry ==
    [id |-> "0", input |-> NamedUrl,
     coordinates |-> [lat |-> parseFloat("12.34"), lng |-> parseFloat("-56.78")],
     timestamp |-> DateOf(0), type |-> "url",
     placeName |-> Some(<<67, 97, 102, 233, 32, 88>>)]

\* the JSON object {} : an item that is no SearchResult
EmptyObject == [k \in {} |-> TRUE]

\* values under the key that this or another program may have left: no value,
\* a text that is no JSON, the JSON text {} , the JSON text [{}] , and
\* lists of entries
LoadStores ==
    InitialStores
        \cup {Some([t |-> "obj"]),
              Some([t |-> "arr", v |-> <<EmptyObject>>]),
              Some(JSONstringify(<<EarlierNamedEntry>>))}

(***************************************************************************)
(* State machine                                                           *)
(*   pc       "mount" before the mount effect has run, "idle" between      *)
(*            events, "awaitPlaceId" while handleSubmit is suspended at    *)
(*            await geocodePlaceId                                         *)
(*   closure  the input and history the suspended handleSubmit closed over *)
(*   log      (auxiliary) the entries recorded since the history was last  *)
(*            loaded or cleared, oldest first                              *)
(*   fromEmpty (auxiliary) the list was empty at that load or clear        *)
(***************************************************************************)
BaseInit ==
    /\ loading = FALSE
    /\ error = ""
    /\ result = Null
    /\ history = <<>>
    /\ preferViewport = TRUE
    /\ showClearModal = FALSE
    /\ closure = Null
    /\ log = <<>>
    /\ fromEmpty = TRUE

Init ==
    /\ BaseInit
    /\ input = ""
    /\ storage \in InitialStores
    /\ now \in 1..MaxClock
    /\ pc = "mount"

\* useEffect(() => {...}, []): load the history
Mount ==
    /\ pc = "mount"
    /\ pc' = "idle"
    /\ LET parsed == IF IsNull(storage) THEN Null ELSE parseHistory(Val(storage))
       IN  history' = IF IsNull(parsed) THEN history ELSE Val(parsed)
    /\ fromEmpty' = (history' = <<>>)
    /\ UNCHANGED <<input, loading, error, result, preferViewport, showClearModal,
                   storage, now, closure, log>>

\* onChange of the text field, which is disabled while loading
SetInput ==
    /\ pc # "mount"
    /\ ~loading
    /\ \E v \in TypedInputs \cup {ExampleUrl} : input' = v /\ input' # input
    /\ UNCHANGED <<loading, error, result, history, preferViewport, showClearModal,
                   storage, now, pc, closure, log, fromEmpty>>

\* onClick of an example button, which is never disabled
ExampleClick ==
    /\ pc # "mount"
    /\ input # ExampleUrl
    /\ input' = ExampleUrl
    /\ UNCHANGED <<loading, error, result, history, preferViewport, showClearModal,
                   storage, now, pc, closure, log, fromEmpty>>

\* onChange of the checkbox, rendered when input && isGoogleMapsUrl(input)
TogglePreferViewport ==
    /\ pc # "mount"
    /\ input # "" /\ InputType(input) = "Google Maps URL"
    /\ preferViewport' = ~preferViewport
    /\ UNCHANGED <<input, loading, error, result, history, showClearModal,
                   storage, now, pc, closure, log, fromEmpty>>

\* the clock of Date.now() and new Date() advances
Tick ==
    /\ now < MaxClock
    /\ now' = now + 1
    /\ UNCHANGED <<input, loading, error, result, history, preferViewport,
                   showClearModal, storage, pc, closure, log, fromEmpty>>

\* Array.prototype.slice(a, b)
slice(s, a, b) == SubSeq(s, a + 1, Min(b, Len(s)))

\* history.slice(0, 9)
SliceEnd == 9

\* the SearchResult handleSubmit builds: id from Date.now() at t1, timestamp
\* from new Date() at t2
newResult(in, res, type, t1, t2) ==
    [id |-> IntToString(t1), input |-> trim(in), coordinates |-> res.coordinates,
     timestamp |-> DateOf(t2), type |-> type, placeName |-> res.placeName]

\* slice(0, 10) in place of slice(0, 9): one entry too many is kept
updatedHistoryKeepsTen(entry, hist) == <<entry>> \o slice(hist, 0, SliceEnd + 1)

\* slice(1, 10) in place of slice(0, 9): the newest old entry is lost
updatedHistoryDropsNewest(entry, hist) == <<entry>> \o slice(hist, 1, SliceEnd + 1)

updatedHistory(entry, hist) == <<entry>> \o slice(hist, 0, SliceEnd)

\* JSON.stringify(history) in place of JSON.stringify(updatedHistory): the
\* list without the new entry is stored
persistedStale(hist) == Some(JSONstringify(Tail(hist)))

\* the value localStorage.setItem("coordinatesHistory", ...) stores
persisted(hist) == Some(JSONstringify(hist))

\* if (result) {...}: show the result, record it, persist the list.  The two
\* clock reads may fall on different milliseconds.
Record(in, hist, res, type) ==
    /\ Len(log) < MaxRecords
    /\ \E t2 \in now..Min(now + 1, MaxClock) :
          LET entry == newResult(in, res, type, now, t2)
          IN  /\ result' = Some(res)
              /\ history' = updatedHistory(entry, hist)
              /\ storage' = persisted(updatedHistory(entry, hist))
              /\ log' = Append(log, entry)
              /\ now' = t2

\* an early return on the empty input only
isBlankEmptyOnly(in) == in = ""

\* if (!input.trim()) return;
isBlank(in) == trim(in) = ""

\* a submit button that is never disabled
submitDisabledNever == FALSE

\* disabled={loading || !input.trim()} of the submit button, without which
\* the form is not submitted; the blank input is left to handleSubmit,
\* which returns at once on it
submitDisabled == loading

\* handleSubmit up to its return or its first suspension.  The state
\* updates of one synchronous run are batched: setLoading(true) followed by
\* setLoading(false) leaves loading false.
handleSubmit ==
    /\ pc # "mount"
    /\ ~submitDisabled
    /\ IF isBlank(input) THEN UNCHANGED vars
       ELSE IF InputType(input) = "Google Maps URL"
       THEN LET res == Extracted(input)
            IN  /\ loading' = FALSE
                /\ IF IsNull(res)
                   THEN /\ error' = ErrUrl
                        /\ result' = Null
                        /\ UNCHANGED <<history, storage, log, now>>
                   ELSE /\ error' = ""
                        /\ Record(input, history, Val(res), "url")
                /\ UNCHANGED <<input, preferViewport, showClearModal, pc, closure,
                               fromEmpty>>
       ELSE IF InputType(input) = "Place ID"
       THEN /\ loading' = TRUE
            /\ error' = ""
            /\ result' = Null
            /\ pc' = "awaitPlaceId"
            /\ closure' = Some([input |-> input, history |-> history,
                                placeId |-> replaceFirst(input, "place_id:", "")])
            /\ UNCHANGED <<input, history, preferViewport, showClearModal, storage,
                           now, log, fromEmpty>>
       ELSE /\ loading' = FALSE
            /\ error' = ErrPlaceName
            /\ result' = Null
            /\ UNCHANGED <<input, history, preferViewport, showClearModal, storage,
                           now, pc, closure, log, fromEmpty>>

\* handleSubmit after the await, without the finally block
handleSubmitResumeNoFinally ==
    /\ pc = "awaitPlaceId"
    /\ pc' = "idle"
    /\ closure' = Null
    /\ error' = ErrPlaceId
    /\ UNCHANGED <<input, loading, result, history, preferViewport, showClearModal,
                   storage, now, log, fromEmpty>>

\* handleSubmit after await geocodePlaceId(cleanPlaceId)
handleSubmitResume ==
    /\ pc = "awaitPlaceId"
    /\ pc' = "idle"
    /\ closure' = Null
    /\ loading' = FALSE
    /\ LET c   == Val(closure)
           res == geocodePlaceId(c.placeId)
       IN  IF IsNull(res)
           THEN /\ error' = ErrPlaceId
                /\ UNCHANGED <<result, history, storage, log, now>>
           ELSE /\ error' = error
                /\ Record(c.input, c.history, Val(res), "placeId")
    /\ UNCHANGED <<input, preferViewport, showClearModal, fromEmpty>>

\* onClick of "Clear History", rendered when history.length > 0
OpenClearModal ==
    /\ pc # "mount"
    /\ Len(history) > 0
    /\ ~showClearModal
    /\ showClearModal' = TRUE
    /\ UNCHANGED <<input, loading, error, result, history, preferViewport,
                   storage, now, pc, closure, log, fromEmpty>>

\* onClick of the modal's Cancel
CancelClearModal ==
    /\ showClearModal
    /\ showClearModal' = FALSE
    /\ UNCHANGED <<input, loading, error, result, history, preferViewport,
                   storage, now, pc, closure, log, fromEmpty>>

\* clearHistory without localStorage.removeItem
clearHistoryKeepsStore ==
    /\ history' = <<>>
    /\ storage' = storage

\* clearHistory: setHistory([]) and localStorage.removeItem
clearHistory ==
    /\ history' = <<>>
    /\ storage' = Null

\* onClick of the modal's confirm button
handleClearHistory ==
    /\ showClearModal
    /\ clearHistory
    /\ showClearModal' = FALSE
    /\ log' = <<>>
    /\ fromEmpty' = TRUE
    /\ UNCHANGED <<input, loading, error, result, preferViewport, now, pc, closure>>

Next ==
    \/ Mount
    \/ SetInput
    \/ ExampleClick
    \/ TogglePreferViewport
    \/ Tick
    \/ handleSubmit
    \/ handleSubmitResume
    \/ OpenClearModal
    \/ CancelClearModal
    \/ handleClearHistory

Spec == Init /\ [][Next]_vars

(***************************************************************************)
(* The pure functions under test: the field holds a drawn input, the       *)
(* checkbox is set either way, and the form is submitted once.             *)
(***************************************************************************)
InitPure ==
    /\ BaseInit
    /\ input \in DrawnInputs
    /\ storage = Null
    /\ now = 0
    /\ pc = "idle"

Submitted == ~IsNull(result) \/ error # "" \/ loading

NextPure ==
    \/ ~Submitted /\ TogglePreferViewport
    \/ ~Submitted /\ handleSubmit
    \/ handleSubmitResume

SpecPure == InitPure /\ [][NextPure]_vars

(***************************************************************************)
(* The application over several sessions: the page is reloaded, the store  *)
(* is kept, and the mount effect loads the history again.                  *)
(***************************************************************************)
InitLoad ==
    /\ BaseInit
    /\ input = ""
    /\ storage \in LoadStores
    /\ now \in 1..MaxClock
    /\ pc = "mount"

\* onChange of the text field, for the first text typed in a session
SetInputOnce ==
    /\ pc # "mount"
    /\ ~loading
    /\ input = ""
    /\ input' \in LoadInputs
    /\ UNCHANGED <<loading, error, result, history, preferViewport, showClearModal,
                   storage, now, pc, closure, log, fromEmpty>>

\* The page is reloaded, which takes time: the component is constructed
\* anew (useState initial values) and its mount effect runs before the user
\* acts; a handleSubmit in flight is lost with the old page.
Reload ==
    /\ pc # "mount"
    /\ now < MaxClock
    /\ now' = now + 1
    /\ input' = ""
    /\ loading' = FALSE
    /\ error' = ""
    /\ result' = Null
    /\ preferViewport' = TRUE
    /\ showClearModal' = FALSE
    /\ closure' = Null
    /\ pc' = "idle"
    /\ LET parsed == IF IsNull(storage) THEN Null ELSE parseHistory(Val(storage))
       IN  history' = IF IsNull(parsed) THEN <<>> ELSE Val(parsed)
    /\ storage' = storage
    /\ log' = <<>>
    /\ fromEmpty' = (history' = <<>>)

NextLoad ==
    \/ Mount
    \/ SetInputOnce
    \/ Tick
    \/ handleSubmit
    \/ handleSubmitResume
    \/ OpenClearModal
    \/ CancelClearModal
    \/ handleClearHistory
    \/ Reload

SpecLoad == InitLoad /\ [][NextLoad]_vars

(***************************************************************************)
(* Properties of the history (Spec)                                        *)
(***************************************************************************)

\* C1: starting from an empty history, after n records with no clear in
\* between the history holds exactly the min(n, 10) most recently recorded
\* entries, most recent first; recording 11 drops exactly the first.
C1_HistoryIsLastTen ==
    fromEmpty =>
        /\ Len(history) = Min(Len(log), 10)
        /\ \A i \in 1..Len(history) : history[i] = log[Len(log) + 1 - i]

\* eleven records since the history was empty, the first of them gone
C1_Witness ==
    /\ fromEmpty
    /\ Len(log) = 11
    /\ Len(history) = 10
    /\ \A i \in 1..Len(history) : history[i] # log[1]

\* C7: after the user confirms clearing, the in-memory history is the empty
\* list and nothing is stored under coordinatesHistory, whatever the history
\* held before.
C7_ClearEmptiesBoth ==
    [][handleClearHistory => history' = <<>> /\ storage' = Null]_vars

\* a result is still displayed, so an entry was recorded, and both copies of
\* the history are gone, so it was cleared afterwards
C7_Witness ==
    /\ ~IsNull(result)
    /\ history = <<>>
    /\ storage = Null

\* C8: after each successful record the stored value is the serialization of
\* the complete new in-memory history, and after any sequence of records and
\* clears that follows a successful load the persisted list and the
\* in-memory list hold the same entries in the same order.
C8_StoreMirrorsHistory ==
    /\ log # <<>> => storage = Some(JSONstringify(history))
    /\ pc # "mount" /\ storage # Some([t |-> "text"]) =>
           \/ storage = Null /\ history = <<>>
           \/ /\ storage = Some(JSONstringify(history))
              /\ Val(storage).t = "arr"
              /\ Len(Val(storage).v) = Len(history)
              /\ \A i \in 1..Len(history) :
                    /\ Val(storage).v[i].id = history[i].id
                    /\ Val(storage).v[i].input = history[i].input
                    /\ Val(storage).v[i].type = history[i].type

\* the eleventh record has been persisted: ten entries, the new one first
C8_Witness ==
    /\ Len(log) = 11
    /\ ~IsNull(storage)
    /\ Len(Val(storage).v) = 10
    /\ Val(storage).v[1].id = log[11].id
    /\ log[11] # log[1]

\* C9: a submit that ends without a result leaves the history and the stored
\* value as they were; a step that changes either of them is the clear, or a
\* record that shows its result and keeps every old entry within the cap.
C9_OnlySuccessRecords ==
    [][pc # "mount" =>
         /\ (handleSubmit \/ handleSubmitResume) /\ IsNull(result') =>
                UNCHANGED <<history, storage>>
         /\ \/ UNCHANGED <<history, storage>>
            \/ /\ showClearModal /\ ~showClearModal'
               /\ history' = <<>> /\ storage' = Null
               /\ UNCHANGED <<result, error, loading>>
            \/ /\ ~IsNull(result') /\ error' = "" /\ ~loading'
               /\ Len(history') >= 1
               /\ Head(history').coordinates = Val(result').coordinates
               /\ Tail(history') = SubSeq(history, 1, Min(9, Len(history)))
               /\ ~IsNull(storage')]_vars

\* a Place ID submit has failed over a full history that is still stored
C9_Witness ==
    /\ error = ErrPlaceId
    /\ Len(history) = 10
    /\ storage = Some(JSONstringify(history))

\* no coordinate pattern matches the trimmed input
NoPatternIn(url) ==
    \A p \in {atPattern, llPattern, qPattern, centerPattern, directPattern,
              exactPattern} : IsNull(match(trim(url), p))
NoPatternTable == [u \in AppInputs |-> NoPatternIn(u)]
NoPattern(url) == IF url \in AppInputs THEN NoPatternTable[url] ELSE NoPatternIn(url)

\* C10: every submit of a non-blank input ends with loading = false; a URL
\* without a pattern, a Place ID and any other input end with their own
\* message and no result, and the next submit can be made.
C10_FailuresRecovered ==
    /\ [](loading => pc = "awaitPlaceId" /\ ENABLED handleSubmitResume)
    /\ [][handleSubmit /\ trim(input) # "" =>
            /\ InputType(input) = "Google Maps URL" /\ NoPattern(input) =>
                  error' = ErrUrl /\ IsNull(result') /\ ~loading' /\ pc' = "idle"
            /\ InputType(input) = "Place ID" =>
                  loading' /\ pc' = "awaitPlaceId" /\ IsNull(result')
            /\ InputType(input) = "Place Name" =>
                  error' = ErrPlaceName /\ IsNull(result') /\ ~loading' /\ pc' = "idle"]_vars
    /\ [][handleSubmitResume =>
            error' = ErrPlaceId /\ IsNull(result') /\ ~loading' /\ pc' = "idle"]_vars

\* a Place ID submit has completed with its message
C10_Witness ==
    /\ pc = "idle"
    /\ error = ErrPlaceId
    /\ IsNull(result)
    /\ ~loading
    /\ InputType(input) = "Place ID"

(***************************************************************************)
(* Properties of the extractor and the classifier (SpecPure)               *)
(***************************************************************************)
\* the single submit of the run has completed
Done == pc = "idle" /\ (~IsNull(result) \/ error # "")

\* the coordinates on display, Null when there is no result
ResultCoords == IF IsNull(result) THEN Null ELSE Some(Val(result).coordinates)

CoordsOf(r) == IF IsNull(r) THEN Null ELSE Some(Val(r).coordinates)

Decimal(m, e) == [m |-> m, e |-> e]

\* the url has a /maps/place/ segment that decodeURIComponent rejects
PlaceUndecodable(url) ==
    /\ ~IsNull(placeNameMatch(url))
    /\ IsNull(decodeURIComponent(replacePlus(Val(placeNameMatch(url)))))

\* C2: for a URL with both an @ marker and a !3d/!4d marker, a submit
\* returns the !3d/!4d pair when preferViewport is false and the @ pair when
\* preferViewport is true.
C2_PreferenceDecides ==
    LET url   == trim(input)
        at    == match(url, atPattern)
        exact == match(url, exactPattern)
    IN  Done /\ input \in DrawnUrls /\ ~IsNull(at) /\ ~IsNull(exact) =>
            ResultCoords = Some(Coordinates(Val(IF preferViewport THEN at ELSE exact)))

C4_SpecOrder ==
    LET m == firstMatch(trim(input),
                        <<atPattern, exactPattern, llPattern, qPattern,
                          centerPattern, directPattern>>)
    IN  Done /\ input \in DrawnUrls =>
            ResultCoords = IF IsNull(m) THEN Null ELSE Some(Coordinates(Val(m)))

\* C4, amended: the patterns are tried in the order @, ll=, q=, center=,
\* bare path, !3d/!4d; the first that matches gives the result, and the
\* extraction fails exactly when none matches or the /maps/place/ segment
\* cannot be percent-decoded.
C4_CodeOrder ==
    LET url == trim(input)
        m   == firstMatch(url, <<atPattern, llPattern, qPattern, centerPattern,
                                 directPattern, exactPattern>>)
    IN  Done /\ input \in DrawnUrls =>
            ResultCoords = IF IsNull(m) \/ PlaceUndecodable(url) THEN Null
                           ELSE Some(Coordinates(Val(m)))

\* a URL with a !3d/!4d marker and a q= parameter has given the q= pair
C4_Witness ==
    /\ Done
    /\ ~IsNull(match(trim(input), exactPattern))
    /\ ~IsNull(match(trim(input), qPattern))
    /\ ResultCoords = Some(Coordinates(Val(match(trim(input), qPattern))))
    /\ ResultCoords # Some(Coordinates(Val(match(trim(input), exactPattern))))

\* C5, as claimed: a URL that contains @12.34,-56.78, whatever stands before
\* or after it, gives lat 12.34 and lng -56.78.
C5_AnyUrlWithMarker ==
    Done /\ input \in DrawnUrls /\ includes(input, "@12.34,-56.78") =>
        ResultCoords = Some([lat |-> Decimal(1234, 2), lng |-> Decimal(-5678, 2)])

\* the first place of url where "@" is followed by NUM "," NUM is at text,
\* and text is not continued by a digit
FirstAtPairIs(url, text) ==
    \E i \in 1..Len(url) :
        /\ StartsWithAt(url, i, text)
        /\ ~IsDigit(CharAt(url, i + Len(text)))
        /\ \A j \in 1..(i - 1) : IsNull(PairAt(url, j, "@", ","))

\* C5, amended: a URL whose first @<number>,<number> is @12.34,-56.78, not
\* continued by a digit, gives lat 12.34 and lng -56.78, and in general the
\* pair of the first @ match is returned, except that the extraction fails
\* when the /maps/place/ segment cannot be percent-decoded.
C5_FirstAtPair ==
    LET url == trim(input)
        at  == match(url, atPattern)
    IN  Done /\ input \in DrawnUrls =>
            /\ FirstAtPairIs(url, "@12.34,-56.78") =>
                  ResultCoords =
                      IF PlaceUndecodable(url) THEN Null
                      ELSE Some([lat |-> Decimal(1234, 2), lng |-> Decimal(-5678, 2)])
            /\ ~IsNull(at) =>
                  ResultCoords = IF PlaceUndecodable(url) THEN Null
                                 ELSE Some(Coordinates(Val(at)))

\* the marker has been found in a URL that goes on after it
C5_Witness ==
    /\ Done
    /\ FirstAtPairIs(trim(input), "@12.34,-56.78")
    /\ input # UrlBase \o "/@12.34,-56.78"
    /\ ResultCoords = Some([lat |-> Decimal(1234, 2), lng |-> Decimal(-5678, 2)])

\* url with the segment after its first maps/place/ replaced by seg
ReplaceSegment(url, seg) ==
    LET name == Val(placeNameMatch(url))
        a    == CHOOSE i \in 1..Len(url) :
                    /\ StartsWithAt(url, i, PlacePrefix \o name)
                    /\ \A j \in 1..(i - 1) : ~StartsWithAt(url, j, PlacePrefix \o name)
    IN  SubSeq(url, 1, a + Len(PlacePrefix) - 1) \o seg
            \o SubSeq(url, a + Len(PlacePrefix) + Len(name), Len(url))

\* place segments that hold no coordinate marker: a plain name, a name with
\* escapes, a lone percent sign
SiblingSegments == {"A", "Caf%C3%A9+X", "%"}

\* C6: two URLs that differ only in the /maps/place/<segment> segment give
\* the same coordinates, neither failing where the other succeeds, and the
\* parsed place name is attached to the result.
C6_PlaceNameIndependent ==
    LET url == trim(input)
    IN  Done /\ input \in DrawnUrls /\ ~IsNull(placeNameMatch(url)) =>
            /\ \A seg \in SiblingSegments :
                  CoordsOf(extractCoordinatesFromUrl(ReplaceSegment(url, seg)))
                      = ResultCoords
            /\ ~IsNull(result) =>
                  Val(result).placeName
                      = decodeURIComponent(replacePlus(Val(placeNameMatch(url))))

(***************************************************************************)
(* Properties of the load at startup (SpecLoad)                            *)
(***************************************************************************)
\* the keys of a SearchResult that JSON.stringify always writes
EntryKeys == {"id", "input", "coordinates", "timestamp", "type"}

\* the stored text is a JSON array of objects that have the keys of an entry
IsEntryList(text) ==
    /\ text.t = "arr"
    /\ \A i \in 1..Len(text.v) : EntryKeys \subseteq DOMAIN text.v[i]

\* C11: the load at startup fails open.  When the stored value is not a list
\* of entries, no error is shown, nothing of the value reaches the history,
\* which is empty, and the form accepts a submit; when it is a list of
\* entries, the history is that list with each timestamp revived as a date.
C11_LoadFailsOpen ==
    [][(Mount \/ Reload) /\ ~IsNull(storage) =>
          IF IsEntryList(Val(storage))
          THEN /\ Len(history') = Len(Val(storage).v)
               /\ \A i \in 1..Len(history') : history'[i].timestamp # InvalidDate
               /\ JSONstringify(history') = Val(storage)
          ELSE /\ error' = ""
               /\ history' = <<>>
               /\ pc' = "idle"
               /\ ~loading']_vars

\* C12: a history list the program has built from an empty history,
\* serialized into the store as the record step does and loaded again by a
\* reload, is the same list: same length, same order, every entry with
\* the same id, input, coordinates, type, place name and instant.
C12_RoundTrip ==
    [][Reload /\ fromEmpty /\ storage = (IF history = <<>> /\ log = <<>> THEN storage
                                         ELSE persisted(history)) =>
          /\ Len(history') = Len(history)
          /\ \A i \in 1..Len(history) :
                /\ DOMAIN history'[i] = DOMAIN history[i]
                /\ \A k \in DOMAIN history[i] : history'[i][k] = history[i][k]]_vars

(***************************************************************************)
(* Properties of the submit in flight (Spec)                               *)
(***************************************************************************)
\* C13: no two extraction requests are in flight at the same time.  loading
\* is true exactly while one handleSubmit is suspended; a request starts
\* only while loading is false and none is suspended; while loading, no
\* submit starts and the text field takes no typing (only an example button
\* changes the input).
C13_OneRequestInFlight ==
    /\ [](loading <=> pc = "awaitPlaceId")
    /\ [](loading <=> ~IsNull(closure))
    /\ [][~IsNull(closure') /\ closure' # closure =>
             ~loading /\ IsNull(closure) /\ loading']_vars
    /\ [][loading => ~(handleSubmit /\ (result' # result \/ error' # error))]_vars
    /\ [][loading /\ input' # input => input' = ExampleUrl]_vars

\* a request is in flight while other controls have been used: an example
\* was clicked and the clear dialog is open
C13_Witness ==
    /\ loading
    /\ pc = "awaitPlaceId"
    /\ Val(closure).input # input
    /\ showClearModal

\* C14: once a submit has completed, a result is displayed only together
\* with an empty error message; a submit of a blank or whitespace-only input
\* changes none of result, error, loading, history and the stored value.
C14_ResultExcludesError ==
    /\ [](~loading /\ ~IsNull(result) => error = "")
    /\ [][handleSubmit /\ trim(input) = "" =>
             UNCHANGED <<result, error, loading, history, storage>>]_vars

\* a result is displayed and the field holds a whitespace-only input, which
\* can be submitted
C14_Witness ==
    /\ pc = "idle"
    /\ ~loading
    /\ ~IsNull(result)
    /\ error = ""
    /\ input # ""
    /\ trim(input) = ""
    /\ ENABLED handleSubmit

\* C15: a clear is not undone by a submit that was in flight when it
\* happened.  The continuation of a suspended handleSubmit changes neither
\* the history nor the stored value, and once both are empty the next
\* change is the record of a submit that starts in that step: it leaves
\* one entry.
C15_ClearNotUndone ==
    /\ [][handleSubmitResume => UNCHANGED <<history, storage>>]_vars
    /\ [][history = <<>> /\ storage = Null
              /\ (history' # <<>> \/ storage' # Null) =>
             /\ IsNull(closure)
             /\ handleSubmit
             /\ Len(history') = 1
             /\ storage' = Some(JSONstringify(history'))]_vars

\* the history was cleared while a handleSubmit that had captured a
\* non-empty history is suspended
C15_Witness ==
    /\ pc = "awaitPlaceId"
    /\ history = <<>>
    /\ storage = Null
    /\ Len(Val(closure).history) > 0

\* C16: the identifiers of the entries in the history are pairwise distinct.
C16_IdsDistinct ==
    \A i, j \in 1..Len(history) : i # j => history[i].id # history[j].id

====
